---- MODULE Spec2Model ----
(***************************************************************************)
(* MyTasks: the persistence-and-reminder subsystem.                        *)
(*                                                                         *)
(*   StorageService       AsyncStorage wrapper holding the task list       *)
(*   NotificationService  expo-notifications wrapper (permission gate,     *)
(*                        schedule, cancel)                                *)
(*   TasksScreen          handleAddTask / handleToggleComplete /           *)
(*                        handleDeleteTask / loadTasks                     *)
(*   TaskDetailsScreen    loadTask / handleSave / handleDelete             *)
(*                                                                         *)
(* Time is the millisecond clock Date.now() reads.  A screen handler runs  *)
(* as one action at one clock instant; the outcome of every platform call  *)
(* it makes (storage read/write fault, notification primitive throwing,    *)
(* the user's answer to the permission prompt) is chosen by the            *)
(* environment at the point the call is made.                              *)
(***************************************************************************)
EXTENDS Integers, Sequences, FiniteSets, TLC

VARIABLES
    storage,      \* AsyncStorage: key -> stored JSON value (present keys only)
    uiTasks,      \* TasksScreen `tasks` state
    screen,       \* which screen is on top: "Tasks", "New", "Edit"
    detail,       \* TaskDetailsScreen `task` state: <<>> (null) or <<task>>
    now,          \* the clock
    initialized,  \* NotificationService.initialized
    permission,   \* platform notification permission status
    scheduled,    \* platform: live scheduled notifications
    issued,       \* platform: number of notification handles handed out
    requests,     \* platform: requestPermissionsAsync calls received
    last,         \* what the most recent handler did (observation only)
    callers,      \* overlapping NotificationService callers (SpecInit)
    healthy,      \* no platform call throws in this run (fixed by Init)
    uiSettings,   \* SettingsScreen `settings` state: <<>> (null) or <<settings>>
    saving        \* TaskDetailsScreen `saving` state

vars == <<storage, uiTasks, screen, detail, now, initialized, permission,
          scheduled, issued, requests, last, callers, healthy, uiSettings,
          saving>>

\* the outcomes of a platform call that may throw: FALSE is a normal return
Faults == IF healthy THEN {FALSE} ELSE BOOLEAN

(***************************************************************************)
(* Bounds                                                                  *)
(***************************************************************************)
MaxTime == 2
MaxTasks == 1
MaxHandles == 2
MaxCallers == 2
MaxStored == 2
MaxReminders == 3

Times == 1..MaxTime

\* the length the task list may reach: MaxTasks where platform calls may
\* throw, one more on a platform whose calls never throw
Capacity == IF healthy THEN MaxTasks + 1 ELSE MaxTasks

(***************************************************************************)
(* Types (Task, TaskStatus, TaskPriority, STORAGE_KEYS)                    *)
(***************************************************************************)
\* an optional timestamp or notification handle that is undefined
Absent == 0
\* an optional text that is undefined
NoText == "undefined"

PENDING == "PENDING"
COMPLETED == "COMPLETED"
TaskStatus == {PENDING, COMPLETED}

HIGH == "HIGH"
MEDIUM == "MEDIUM"
LOW == "LOW"
TaskPriority == {HIGH, MEDIUM, LOW}

TASKS == "@my_tasks_app:tasks"

Fields == {"id", "title", "description", "priority", "status", "createdAt",
           "updatedAt", "dueDate", "reminderTime", "notificationId"}

\* the value an in-memory Task carries in a field that is undefined
Undefined(f) ==
    IF f \in {"createdAt", "updatedAt", "dueDate", "reminderTime", "notificationId"}
    THEN Absent ELSE NoText

Task(id, title, description, priority, status, createdAt, updatedAt, dueDate, reminderTime, notificationId) ==
    [id |-> id, title |-> title, description |-> description,
     priority |-> priority, status |-> status, createdAt |-> createdAt,
     updatedAt |-> updatedAt, dueDate |-> dueDate,
     reminderTime |-> reminderTime, notificationId |-> notificationId]

(***************************************************************************)
(* JSON conversion of the task list                                        *)
(***************************************************************************)
\* Date.prototype.toJSON: the ISO-8601 string of a timestamp
ISO(t) == <<"ISO", t>>
\* new Date(isoString)
ParseDate(s) == s[2]

\* JSON.stringify of one task: undefined-valued keys are dropped, Dates
\* become ISO strings
StringifyTask(t) ==
    [f \in {g \in Fields : t[g] # Undefined(g)} |->
        IF f \in {"createdAt", "updatedAt", "dueDate", "reminderTime"}
        THEN ISO(t[f]) ELSE t[f]]

stringify(tasks) == [i \in 1..Len(tasks) |-> StringifyTask(tasks[i])]

\* the map callback without the `?:` guards of dueDate and reminderTime:
\* new Date(undefined) is an Invalid Date (-1), not undefined
ParseTaskUnguarded(j) ==
    [f \in Fields |->
        IF f \in {"createdAt", "updatedAt", "dueDate", "reminderTime"}
        THEN (IF f \in DOMAIN j THEN ParseDate(j[f]) ELSE -1)
        ELSE (IF f \in DOMAIN j THEN j[f] ELSE Undefined(f))]

\* getTasks' map callback: spread the parsed object, rebuild the Dates
ParseTask(j) ==
    [f \in Fields |->
        IF f \in {"createdAt", "updatedAt"}
        THEN (IF f \in DOMAIN j THEN ParseDate(j[f]) ELSE Absent)
        ELSE IF f \in {"dueDate", "reminderTime"}
        THEN (IF f \in DOMAIN j THEN ParseDate(j[f]) ELSE Absent)
        ELSE (IF f \in DOMAIN j THEN j[f] ELSE Undefined(f))]

(***************************************************************************)
(* AsyncStorage                                                            *)
(***************************************************************************)
getItem(st, key) == IF key \in DOMAIN st THEN <<st[key]>> ELSE <<>>

setItem(st, key, value) ==
    [k \in (DOMAIN st) \cup {key} |-> IF k = key THEN value ELSE st[k]]

(***************************************************************************)
(* StorageService.  readFault / writeFault: the AsyncStorage call throws.  *)
(* Every mutator returns [ok, st]: its boolean result and the storage      *)
(* after the call.                                                         *)
(***************************************************************************)
getTasks(st, readFault) ==
    IF readFault THEN <<>>
    ELSE LET tasksJson == getItem(st, TASKS)
         IN IF tasksJson = <<>> THEN <<>>
            ELSE [i \in 1..Len(tasksJson[1]) |-> ParseTask(tasksJson[1][i])]

saveTasks(st, tasks, writeFault) ==
    IF writeFault THEN [ok |-> FALSE, st |-> st]
    ELSE [ok |-> TRUE, st |-> setItem(st, TASKS, stringify(tasks))]

addTask(st, task, readFault, writeFault) ==
    saveTasks(st, Append(getTasks(st, readFault), task), writeFault)

\* Array.prototype.findIndex: the first index whose task has this id, 0 for -1
findIndex(tasks, taskId) ==
    IF \E i \in 1..Len(tasks) : tasks[i].id = taskId
    THEN CHOOSE i \in 1..Len(tasks) :
            /\ tasks[i].id = taskId
            /\ \A k \in 1..(i - 1) : tasks[k].id # taskId
    ELSE 0

\* { ...updates, updatedAt: new Date() }: the stored task's own fields dropped
MergeUpdatesOnly(task, updates, clock) ==
    [f \in Fields |->
        IF f = "updatedAt" THEN clock
        ELSE IF f \in DOMAIN updates THEN updates[f]
        ELSE Undefined(f)]

\* { ...task, ...updates, updatedAt: new Date() }
Merge(task, updates, clock) ==
    [f \in Fields |->
        IF f = "updatedAt" THEN clock
        ELSE IF f \in DOMAIN updates THEN updates[f]
        ELSE task[f]]

\* updateTask without the taskIndex === -1 return
updateTaskUnchecked(st, taskId, updates, clock, readFault, writeFault) ==
    LET tasks == getTasks(st, readFault)
        taskIndex == findIndex(tasks, taskId)
    IN saveTasks(st,
                 IF taskIndex = 0 THEN tasks
                 ELSE [tasks EXCEPT ![taskIndex] = Merge(tasks[taskIndex], updates, clock)],
                 writeFault)

updateTask(st, taskId, updates, clock, readFault, writeFault) ==
    LET tasks == getTasks(st, readFault)
        taskIndex == findIndex(tasks, taskId)
    IN IF taskIndex = 0 THEN [ok |-> FALSE, st |-> st]
       ELSE saveTasks(st,
                      [tasks EXCEPT ![taskIndex] = Merge(tasks[taskIndex], updates, clock)],
                      writeFault)

\* Array.prototype.filter keeping the tasks with another id
FilterOut(tasks, taskId) ==
    LET F[i \in 0..Len(tasks)] ==
            IF i = 0 THEN <<>>
            ELSE IF tasks[i].id # taskId THEN Append(F[i - 1], tasks[i])
            ELSE F[i - 1]
    IN F[Len(tasks)]

\* deleteTask that fails when no task has the id
deleteTaskIfFound(st, taskId, readFault, writeFault) ==
    LET tasks == getTasks(st, readFault)
    IN IF findIndex(tasks, taskId) = 0 THEN [ok |-> FALSE, st |-> st]
       ELSE saveTasks(st, FilterOut(tasks, taskId), writeFault)

deleteTask(st, taskId, readFault, writeFault) ==
    saveTasks(st, FilterOut(getTasks(st, readFault), taskId), writeFault)

\* tasks.find(...) || null, as <<>> or <<task>>
getTaskById(st, taskId, readFault) ==
    LET tasks == getTasks(st, readFault)
        i == findIndex(tasks, taskId)
    IN IF i = 0 THEN <<>> ELSE <<tasks[i]>>

\* getTaskStats with highPriority counted over tasks of any status
getTaskStatsAnyStatus(st, clock, readFault) ==
    LET tasks == getTasks(st, readFault)
        tomorrow == clock + 24 * 60 * 60 * 1000
        \* tasks.filter(...).length
        completed == {i \in 1..Len(tasks) : tasks[i].status = COMPLETED}
        pending == {i \in 1..Len(tasks) : tasks[i].status = PENDING}
        highPriority == {i \in 1..Len(tasks) : tasks[i].priority = HIGH}
        dueSoon == {i \in 1..Len(tasks) :
                        /\ tasks[i].dueDate # Absent
                        /\ tasks[i].dueDate <= tomorrow
                        /\ tasks[i].status = PENDING}
    IN [total |-> Len(tasks), completed |-> Cardinality(completed),
        pending |-> Cardinality(pending),
        highPriority |-> Cardinality(highPriority),
        dueSoon |-> Cardinality(dueSoon)]

getTaskStats(st, clock, readFault) ==
    LET tasks == getTasks(st, readFault)
        tomorrow == clock + 24 * 60 * 60 * 1000
        \* tasks.filter(...).length
        completed == {i \in 1..Len(tasks) : tasks[i].status = COMPLETED}
        pending == {i \in 1..Len(tasks) : tasks[i].status = PENDING}
        highPriority == {i \in 1..Len(tasks) : tasks[i].priority = HIGH /\ tasks[i].status = PENDING}
        dueSoon == {i \in 1..Len(tasks) :
                        /\ tasks[i].dueDate # Absent
                        /\ tasks[i].dueDate <= tomorrow
                        /\ tasks[i].status = PENDING}
    IN [total |-> Len(tasks), completed |-> Cardinality(completed),
        pending |-> Cardinality(pending),
        highPriority |-> Cardinality(highPriority),
        dueSoon |-> Cardinality(dueSoon)]

(***************************************************************************)
(* StorageService.getNextReminder                                          *)
(***************************************************************************)
\* the filter of getNextReminder without its status test
UpcomingAnyStatus(tasks, clock) ==
    LET F[i \in 0..Len(tasks)] ==
            IF i = 0 THEN <<>>
            ELSE IF tasks[i].reminderTime # Absent /\ tasks[i].reminderTime > clock
                 THEN Append(F[i - 1], tasks[i])
                 ELSE F[i - 1]
    IN F[Len(tasks)]

\* tasks.filter(task => task.reminderTime && task.reminderTime > now &&
\*                      task.status === TaskStatus.PENDING)
Upcoming(tasks, clock) ==
    LET F[i \in 0..Len(tasks)] ==
            IF i = 0 THEN <<>>
            ELSE IF /\ tasks[i].reminderTime # Absent
                    /\ tasks[i].reminderTime > clock
                    /\ tasks[i].status = PENDING
                 THEN Append(F[i - 1], tasks[i])
                 ELSE F[i - 1]
    IN F[Len(tasks)]

\* Array.prototype.sort with the comparator a.reminderTime - b.reminderTime:
\* a stable sort, here by insertion behind the tasks that are not later
SortByReminderTime(tasks) ==
    LET Insert(sorted, t) ==
            LET k == Cardinality({j \in 1..Len(sorted) :
                                    sorted[j].reminderTime <= t.reminderTime})
            IN SubSeq(sorted, 1, k) \o <<t>> \o SubSeq(sorted, k + 1, Len(sorted))
        G[i \in 0..Len(tasks)] ==
            IF i = 0 THEN <<>> ELSE Insert(G[i - 1], tasks[i])
    IN G[Len(tasks)]

\* the Date of the nearest reminder, Absent for null
getNextReminder(st, clock, readFault) ==
    LET tasks == getTasks(st, readFault)
        upcomingReminders == SortByReminderTime(Upcoming(tasks, clock))
    IN IF Len(upcomingReminders) > 0 THEN upcomingReminders[1].reminderTime
       ELSE Absent

(***************************************************************************)
(* StorageService: settings and reset                                      *)
(***************************************************************************)
SETTINGS == "@my_tasks_app:settings"

SettingsFields == {"notificationDelay", "themeMode", "enableNotifications",
                   "dailyReminderTime"}

\* settings that differ from the defaults in the theme
lightSettings ==
    [notificationDelay |-> 30, themeMode |-> "light", enableNotifications |-> TRUE,
     dailyReminderTime |-> "09:00"]

defaultSettings ==
    [notificationDelay |-> 30, themeMode |-> "dark", enableNotifications |-> TRUE,
     dailyReminderTime |-> "09:00"]

\* JSON.stringify(settings): dailyReminderTime is dropped when undefined
stringifySettings(settings) ==
    [f \in {g \in SettingsFields :
                g # "dailyReminderTime" \/ settings[g] # NoText} |-> settings[f]]

\* JSON.parse(settingsJson), read as AppSettings
parseSettings(j) ==
    [f \in SettingsFields |-> IF f \in DOMAIN j THEN j[f] ELSE NoText]

getSettings(st, readFault) ==
    IF readFault THEN defaultSettings
    ELSE LET settingsJson == getItem(st, SETTINGS)
         IN IF settingsJson = <<>> THEN defaultSettings
            ELSE parseSettings(settingsJson[1])

saveSettings(st, settings, writeFault) ==
    IF writeFault THEN [ok |-> FALSE, st |-> st]
    ELSE [ok |-> TRUE, st |-> setItem(st, SETTINGS, stringifySettings(settings))]

\* AsyncStorage.multiRemove
multiRemove(st, keys) == [k \in (DOMAIN st) \ keys |-> st[k]]

\* saveSettings(newSettings) with newSettings = { ...currentSettings, ...updates }
updateSettings(st, updates, readFault, writeFault) ==
    LET currentSettings == getSettings(st, readFault)
        newSettings == [f \in SettingsFields |->
                           IF f \in DOMAIN updates THEN updates[f]
                           ELSE currentSettings[f]]
    IN saveSettings(st, newSettings, writeFault)

(***************************************************************************)
(* StorageService: the first-launch marker                                 *)
(***************************************************************************)
FIRST_LAUNCH == "@my_tasks_app:first_launch"

\* firstLaunch === null; true when the read throws
isFirstLaunch(st, readFault) ==
    IF readFault THEN TRUE
    ELSE getItem(st, FIRST_LAUNCH) = <<>>

setFirstLaunchComplete(st, writeFault) ==
    IF writeFault THEN [ok |-> FALSE, st |-> st]
    ELSE [ok |-> TRUE, st |-> setItem(st, FIRST_LAUNCH, "false")]

\* clearAllData that removes every key of the application
clearEveryKey(st, removeFault) ==
    IF removeFault THEN [ok |-> FALSE, st |-> st]
    ELSE [ok |-> TRUE, st |-> multiRemove(st, {TASKS, SETTINGS, FIRST_LAUNCH})]

\* clearAllData as two removeItem calls, the second of which throws
clearAllDataStepwise(st, removeFault) ==
    IF removeFault THEN [ok |-> FALSE, st |-> multiRemove(st, {TASKS})]
    ELSE [ok |-> TRUE, st |-> multiRemove(st, {TASKS, SETTINGS})]

\* clearAllData that removes the task list only
clearTasksOnly(st, removeFault) ==
    IF removeFault THEN [ok |-> FALSE, st |-> st]
    ELSE [ok |-> TRUE, st |-> multiRemove(st, {TASKS})]

clearAllData(st, removeFault) ==
    IF removeFault THEN [ok |-> FALSE, st |-> st]
    ELSE [ok |-> TRUE, st |-> multiRemove(st, {TASKS, SETTINGS})]

(***************************************************************************)
(* The notification world a handler runs against: the service's flag, the  *)
(* platform's permission status and live notifications, and the log of     *)
(* what the handler asked of the service and the platform.                 *)
(***************************************************************************)
World ==
    [initialized |-> initialized, permission |-> permission,
     scheduled |-> scheduled, issued |-> issued, requests |-> requests,
     calls |-> <<>>, cancels |-> <<>>]

\* Environment of one initialize() call: does getPermissionsAsync throw, does
\* requestPermissionsAsync throw, and what does the user answer to the prompt.
InitEnvAll(n) ==
    IF n.initialized THEN {[getThrows |-> FALSE, requestThrows |-> FALSE, answer |-> n.permission]}
    ELSE IF n.permission = "granted"
    THEN {[getThrows |-> g, requestThrows |-> FALSE, answer |-> "granted"] : g \in BOOLEAN}
    ELSE {[getThrows |-> TRUE, requestThrows |-> FALSE, answer |-> n.permission],
          [getThrows |-> FALSE, requestThrows |-> TRUE, answer |-> n.permission],
          [getThrows |-> FALSE, requestThrows |-> FALSE, answer |-> "granted"],
          [getThrows |-> FALSE, requestThrows |-> FALSE, answer |-> "denied"]}

InitEnv(n) ==
    {env \in InitEnvAll(n) : healthy => (~env.getThrows /\ ~env.requestThrows)}

(***************************************************************************)
(* NotificationService.  Every method returns [n, ret]: the world after    *)
(* the call and the value the promise resolves to.                         *)
(***************************************************************************)
initialize(n, env) ==
    IF n.initialized THEN [n |-> n, ret |-> TRUE]
    ELSE IF env.getThrows
    THEN [n |-> [n EXCEPT !.initialized = TRUE], ret |-> FALSE]
    ELSE LET existingStatus == n.permission
         IN IF existingStatus # "granted"
            THEN IF env.requestThrows
                 THEN [n |-> [n EXCEPT !.requests = @ + 1, !.initialized = TRUE],
                       ret |-> FALSE]
                 ELSE LET finalStatus == env.answer
                      IN [n |-> [n EXCEPT !.requests = @ + 1,
                                          !.permission = finalStatus,
                                          !.initialized = TRUE],
                          ret |-> finalStatus = "granted"]
            ELSE [n |-> [n EXCEPT !.initialized = TRUE], ret |-> TRUE]

\* the delay handleAddTask passes
AddDelayMinutes == 30
\* the default of scheduleTaskNotification's delayMinutes parameter
DefaultDelayMinutes == 0

\* triggerTime <= new Date(), and the same test with the boundary let through
isPastStrict(triggerTime, clock) == triggerTime < clock
isPast(triggerTime, clock) == triggerTime <= clock

\* the trigger instant with task.reminderTime ignored
resolveTriggerDelayOnly(task, delayMinutes, clock) ==
    clock + delayMinutes * 60 * 1000

\* triggerTime: task.reminderTime if present, else Date.now() + delayMinutes
resolveTrigger(task, delayMinutes, clock) ==
    IF task.reminderTime # Absent THEN task.reminderTime
    ELSE clock + delayMinutes * 60 * 1000

\* one entry of the log of scheduleTaskNotification calls
CallRecord(n0, n1, task, delayMinutes, clock, reached, ret) ==
    [status |-> task.status, reminderTime |-> task.reminderTime,
     delayMinutes |-> delayMinutes,
     denied |-> n0.initialized /\ n0.permission = "denied",
     prompted |-> n1.requests # n0.requests, reached |-> reached, ret |-> ret]

scheduleTaskNotification(n, task, delayMinutes, clock, env, scheduleThrows) ==
    LET n1 == initialize(n, env).n
        Done(w, reached, ret) ==
            [n |-> [w EXCEPT !.calls = Append(@, CallRecord(n, w, task, delayMinutes,
                                                           clock, reached, ret))],
             ret |-> ret]
    IN IF task.reminderTime = Absent /\ delayMinutes = 0
       THEN Done(n1, FALSE, Absent)
       ELSE LET triggerTime == resolveTrigger(task, delayMinutes, clock)
            IN IF isPast(triggerTime, clock)
               THEN Done(n1, FALSE, Absent)
               ELSE IF scheduleThrows
               THEN Done(n1, TRUE, Absent)
               ELSE LET notificationId == n1.issued + 1
                    IN Done([n1 EXCEPT !.issued = notificationId,
                                       !.scheduled = @ \cup
                                           {[id |-> notificationId,
                                             trigger |-> triggerTime,
                                             taskId |-> task.id]}],
                            TRUE, notificationId)

cancelNotification(n, notificationId, cancelThrows) ==
    LET n1 == [n EXCEPT !.cancels = Append(@, notificationId)]
    IN IF cancelThrows THEN [n |-> n1, ret |-> FALSE]
       ELSE [n |-> [n1 EXCEPT !.scheduled = {x \in @ : x.id # notificationId}],
             ret |-> TRUE]

cancelAllNotifications(n, cancelAllThrows) ==
    IF cancelAllThrows THEN [n |-> n, ret |-> FALSE]
    ELSE [n |-> [n EXCEPT !.scheduled = {}], ret |-> TRUE]

\* the handles of the live notifications
Live == {x.id : x \in scheduled}

(***************************************************************************)
(* What the user can put into the forms                                    *)
(***************************************************************************)
FormTitles == {"", "task"}
FormPriorities == {MEDIUM}
FormReminders == 1..(MaxTime + 1)
Delays == {-1, DefaultDelayMinutes, AddDelayMinutes}

\* formData.description.trim() || undefined
Description(text) == IF text = "" THEN NoText ELSE text

(***************************************************************************)
(* Screen state.  The screens hold Task objects; the model keeps the       *)
(* fields of them that the handlers read.                                  *)
(***************************************************************************)
\* a task of TasksScreen's list: handleToggleComplete and handleDeleteTask
\* read id, status and notificationId
Shown(task) ==
    [id |-> task.id, status |-> task.status, notificationId |-> task.notificationId]

ShownAll(tasks) == [i \in 1..Len(tasks) |-> Shown(tasks[i])]

\* TaskDetailsScreen's task: handleSave and handleDelete read id and
\* notificationId
Loaded(task) == [id |-> task.id, notificationId |-> task.notificationId]

(***************************************************************************)
(* Observation of the most recent handler                                  *)
(***************************************************************************)
NoOp ==
    [op |-> "none", id |-> NoText, before |-> <<>>, count |-> 0, data |-> <<>>,
     written |-> FALSE, reported |-> "none", calls |-> <<>>, cancels |-> <<>>]

\* The state a handler leaves: storage st, notification world n, TasksScreen
\* list ui, screen scr and TaskDetailsScreen task det.  data is what the
\* handler was asked to write.
Finish(op, id, data, written, reported, st, n, ui, scr, det) ==
    /\ storage' = st
    /\ uiTasks' = ui
    /\ screen' = scr
    /\ detail' = det
    /\ initialized' = n.initialized
    /\ permission' = n.permission
    /\ scheduled' = n.scheduled
    /\ issued' = n.issued
    /\ requests' = n.requests
    /\ last' = [op |-> op, id |-> id,
                before |-> IF id = NoText THEN <<>>
                           ELSE LET t == getTaskById(storage, id, FALSE)
                                IN IF t = <<>> THEN <<>>
                                   ELSE <<[status |-> t[1].status,
                                           reminderTime |-> t[1].reminderTime,
                                           notificationId |-> t[1].notificationId]>>,
                count |-> Len(getTasks(storage, FALSE)),
                data |-> data, written |-> written, reported |-> reported,
                calls |-> n.calls, cancels |-> n.cancels]
    /\ UNCHANGED <<now, callers, healthy,
                   uiSettings, saving>>

\* a navigation or reload, which leaves storage and notifications alone
Show(ui, scr, det) ==
    /\ uiTasks' = ui
    /\ screen' = scr
    /\ detail' = det
    /\ last' = NoOp
    /\ UNCHANGED <<storage, now, initialized, permission, scheduled, issued,
                   requests, callers, healthy,
                   uiSettings, saving>>

\* the stored collection, read without a fault
Stored == getTasks(storage, FALSE)

(***************************************************************************)
(* TasksScreen                                                             *)
(***************************************************************************)
\* loadTasks, run by the focus effect and by pull-to-refresh
loadTasks ==
    /\ screen = "Tasks"
    /\ \E readFault \in Faults :
          Show(ShownAll(getTasks(storage, readFault)), screen, detail)

handleAddTask ==
    /\ screen = "Tasks"
    /\ Len(Stored) < Capacity
    /\ Len(uiTasks) < Capacity
    /\ issued < MaxHandles
    /\ \E title \in FormTitles, priority \in FormPriorities :
        IF title = ""
        THEN Finish("add", NoText, <<>>, FALSE, "invalid", storage, World,
                    uiTasks, screen, detail)
        ELSE
          LET newTask == Task(ToString(now), title, Description(""), priority,
                              PENDING, now, now, Absent, Absent, Absent)
              data == <<[title |-> title, priority |-> priority, status |-> PENDING,
                         reminderTime |-> Absent, isNew |-> TRUE]>>
          IN \E readFault \in Faults, writeFault \in Faults :
              LET success == addTask(storage, newTask, readFault, writeFault)
              IN IF ~success.ok
                 THEN Finish("add", newTask.id, data, FALSE, "error",
                             storage, World, uiTasks, screen, detail)
                 ELSE \E env \in InitEnv(World), scheduleThrows \in Faults :
                    LET s == scheduleTaskNotification(World, newTask, AddDelayMinutes, now,
                                                      env, scheduleThrows)
                    IN IF s.ret # Absent
                       THEN \E readFault2 \in Faults, writeFault2 \in Faults :
                            LET u == updateTask(success.st, newTask.id,
                                                [notificationId |-> s.ret], now,
                                                readFault2, writeFault2)
                            IN Finish("add", newTask.id, data, TRUE, "success",
                                      u.st, s.n,
                                      <<Shown([newTask EXCEPT !.notificationId = s.ret])>>
                                          \o uiTasks,
                                      screen, detail)
                       ELSE Finish("add", newTask.id, data, TRUE, "success",
                                   success.st, s.n, <<Shown(newTask)>> \o uiTasks,
                                   screen, detail)

handleToggleComplete ==
    /\ screen = "Tasks"
    /\ \E i \in 1..Len(uiTasks) :
        LET task == uiTasks[i]
            newStatus == IF task.status = COMPLETED THEN PENDING ELSE COMPLETED
            data == <<[status |-> newStatus]>>
            shown == [k \in 1..Len(uiTasks) |->
                        IF uiTasks[k].id = task.id
                        THEN [uiTasks[k] EXCEPT !.status = newStatus]
                        ELSE uiTasks[k]]
        IN \E readFault \in Faults, writeFault \in Faults :
            LET success == updateTask(storage, task.id, [status |-> newStatus],
                                      now, readFault, writeFault)
            IN IF success.ok
               THEN IF newStatus = COMPLETED /\ task.notificationId # Absent
                    THEN \E cancelThrows \in Faults :
                         Finish("toggle", task.id, data, TRUE, "success", success.st,
                                cancelNotification(World, task.notificationId,
                                                   cancelThrows).n,
                                shown, screen, detail)
                    ELSE Finish("toggle", task.id, data, TRUE, "success", success.st,
                                World, shown, screen, detail)
               ELSE Finish("toggle", task.id, data, FALSE, "none", storage, World,
                           uiTasks, screen, detail)

\* the Delete button of the confirmation alert
handleDeleteTask ==
    /\ screen = "Tasks"
    /\ \E i \in 1..Len(uiTasks) :
        LET task == uiTasks[i]
        IN \E cancelThrows \in (IF task.notificationId # Absent THEN Faults ELSE {FALSE}),
              readFault \in Faults, writeFault \in Faults :
            LET n == IF task.notificationId # Absent
                     THEN cancelNotification(World, task.notificationId, cancelThrows).n
                     ELSE World
                success == deleteTask(storage, task.id, readFault, writeFault)
            IN IF success.ok
               THEN Finish("delete", task.id, <<>>, TRUE, "success", success.st, n,
                           FilterOut(uiTasks, task.id), screen, detail)
               ELSE Finish("delete", task.id, <<>>, FALSE, "error", storage, n,
                           uiTasks, screen, detail)

(***************************************************************************)
(* Navigation between TasksScreen and TaskDetailsScreen                    *)
(***************************************************************************)
\* tap on a task card: navigate('TaskDetails', {taskId}); loadTask runs on
\* focus and goes back (TasksScreen reloads) when the task is not found
openTask ==
    /\ screen = "Tasks"
    /\ \E i \in 1..Len(uiTasks), readFault \in Faults :
        LET loadedTask == getTaskById(storage, uiTasks[i].id, readFault)
        IN IF loadedTask # <<>>
           THEN Show(uiTasks, "Edit", <<Loaded(loadedTask[1])>>)
           ELSE \E readFault2 \in Faults :
                Show(ShownAll(getTasks(storage, readFault2)), "Tasks", <<>>)

\* the floating button: navigate('TaskDetails', {isEditing: false})
openNewTask ==
    /\ screen = "Tasks"
    /\ Show(uiTasks, "New", <<>>)

\* the header back button; TasksScreen reloads on focus
goBack ==
    /\ screen \in {"New", "Edit"}
    /\ \E readFault \in Faults :
          Show(ShownAll(getTasks(storage, readFault)), "Tasks", <<>>)

(***************************************************************************)
(* TaskDetailsScreen                                                       *)
(***************************************************************************)
handleSave ==
    /\ screen \in {"New", "Edit"}
    /\ screen = "New" => Len(Stored) < Capacity
    /\ issued < MaxHandles
    /\ \E title \in FormTitles, priority \in FormPriorities,
          status \in (IF screen = "New" THEN {PENDING} ELSE TaskStatus),
          enableReminder \in BOOLEAN,
          reminderTime \in FormReminders \cup {Absent} :
        IF title = ""
        THEN Finish("save", NoText, <<>>, FALSE, "invalid", storage, World,
                    uiTasks, screen, detail)
        ELSE
          LET isNewTask == screen = "New"
              taskData == [title |-> title, description |-> Description(""),
                           priority |-> priority, status |-> status,
                           dueDate |-> Absent,
                           reminderTime |-> IF enableReminder THEN reminderTime
                                            ELSE Absent]
              \* the fields of updatedTask that are read after this point
              updatedTask ==
                  Task(IF isNewTask THEN ToString(now) ELSE detail[1].id,
                       taskData.title, taskData.description, taskData.priority,
                       taskData.status, now, now, taskData.dueDate,
                       taskData.reminderTime,
                       IF isNewTask THEN Absent ELSE detail[1].notificationId)
              previous == IF isNewTask THEN Absent ELSE detail[1].notificationId
              data == <<[title |-> title, priority |-> priority, status |-> status,
                         reminderTime |-> taskData.reminderTime, isNew |-> isNewTask]>>
          IN \E readFault \in Faults, writeFault \in Faults :
              LET success ==
                      IF isNewTask
                      THEN addTask(storage, updatedTask, readFault, writeFault)
                      ELSE updateTask(storage, detail[1].id, taskData, now,
                                      readFault, writeFault)
                  \* navigation.goBack(): TasksScreen gets the focus and reloads
                  Saved(st, n) ==
                      \E readFault3 \in Faults :
                          Finish("save", updatedTask.id, data, TRUE, "success", st, n,
                                 ShownAll(getTasks(st, readFault3)), "Tasks", <<>>)
              IN IF ~success.ok
                 THEN Finish("save", updatedTask.id, data, FALSE, "error",
                             storage, World, uiTasks, screen, detail)
                 ELSE IF enableReminder /\ reminderTime # Absent
                 THEN \E cancelThrows \in (IF previous # Absent THEN Faults ELSE {FALSE}),
                         env \in InitEnv(World), scheduleThrows \in Faults :
                      LET n1 == IF previous # Absent
                                THEN cancelNotification(World, previous, cancelThrows).n
                                ELSE World
                          s == scheduleTaskNotification(n1, updatedTask,
                                                        DefaultDelayMinutes, now, env,
                                                        scheduleThrows)
                      IN IF s.ret # Absent
                         THEN \E readFault2 \in Faults, writeFault2 \in Faults :
                              Saved(updateTask(success.st, updatedTask.id,
                                               [notificationId |-> s.ret], now,
                                               readFault2, writeFault2).st,
                                    s.n)
                         ELSE Saved(success.st, s.n)
                 ELSE IF previous # Absent
                 THEN \E cancelThrows \in Faults, readFault2 \in Faults,
                         writeFault2 \in Faults :
                      Saved(updateTask(success.st, updatedTask.id,
                                       [notificationId |-> Absent], now,
                                       readFault2, writeFault2).st,
                            cancelNotification(World, previous, cancelThrows).n)
                 ELSE Saved(success.st, World)

\* the Delete button of the confirmation alert
handleDelete ==
    /\ screen = "Edit"
    /\ LET task == detail[1]
       IN \E cancelThrows \in (IF task.notificationId # Absent THEN Faults ELSE {FALSE}),
             readFault \in Faults, writeFault \in Faults :
            LET n == IF task.notificationId # Absent
                     THEN cancelNotification(World, task.notificationId, cancelThrows).n
                     ELSE World
                success == deleteTask(storage, task.id, readFault, writeFault)
            IN IF success.ok
               THEN \E readFault3 \in Faults :
                    Finish("delete", task.id, <<>>, TRUE, "success", success.st, n,
                           ShownAll(getTasks(success.st, readFault3)), "Tasks", <<>>)
               ELSE Finish("delete", task.id, <<>>, FALSE, "error", storage, n,
                           uiTasks, screen, detail)

(***************************************************************************)
(* The platform                                                            *)
(***************************************************************************)
\* a millisecond passes; the notifications whose trigger is reached fire
Tick ==
    /\ now < MaxTime
    /\ now' = now + 1
    /\ scheduled' = {x \in scheduled : x.trigger > now + 1}
    /\ last' = NoOp
    /\ UNCHANGED <<storage, uiTasks, screen, detail, initialized, permission,
                   issued, requests, callers, healthy,
                   uiSettings, saving>>

(***************************************************************************)
(* The application: one user, one handler at a time                        *)
(***************************************************************************)
Idle == [c \in 1..MaxCallers |-> [pc |-> "idle"]]

\* a fresh installation: nothing stored, permission never asked for
Init ==
    /\ storage = <<>>
    /\ uiTasks = <<>>
    /\ screen = "Tasks"
    /\ detail = <<>>
    /\ now = 1
    /\ initialized = FALSE
    /\ permission = "undetermined"
    /\ scheduled = {}
    /\ issued = 0
    /\ requests = 0
    /\ last = NoOp
    /\ callers = Idle
    /\ healthy = FALSE
    /\ uiSettings = <<>>
    /\ saving = FALSE

Next ==
    \/ loadTasks
    \/ handleAddTask
    \/ handleToggleComplete
    \/ handleDeleteTask
    \/ openTask
    \/ openNewTask
    \/ goBack
    \/ handleSave
    \/ handleDelete
    \/ Tick

Spec == Init /\ [][Next]_vars

(***************************************************************************)
(* NotificationService on its own: any caller of the public methods, in a  *)
(* process started with any permission status                              *)
(***************************************************************************)
initializeCall ==
    \E env \in InitEnv(World) :
        LET r == initialize(World, env)
        IN Finish("initialize", NoText,
                  <<[ret |-> r.ret,
                     denied |-> initialized /\ permission = "denied",
                     prompted |-> r.n.requests # requests]>>,
                  FALSE, "none", storage, r.n, uiTasks, screen, detail)

scheduleCall ==
    /\ issued < MaxHandles
    /\ \E reminderTime \in {Absent} \cup FormReminders, delayMinutes \in Delays,
          status \in TaskStatus,
          env \in InitEnv(World), scheduleThrows \in Faults :
        LET task == Task("test", "task", NoText, MEDIUM, status, now, now, Absent,
                         reminderTime, Absent)
        IN Finish("schedule", NoText,
                  <<[title |-> task.title, priority |-> task.priority,
                     status |-> status, reminderTime |-> reminderTime,
                     isNew |-> FALSE]>>,
                  FALSE, "none", storage,
                  scheduleTaskNotification(World, task, delayMinutes, now, env,
                                           scheduleThrows).n,
                  uiTasks, screen, detail)

cancelCall ==
    \E notificationId \in 1..MaxHandles, cancelThrows \in Faults :
        Finish("cancel", NoText, <<>>, FALSE, "none", storage,
               cancelNotification(World, notificationId, cancelThrows).n,
               uiTasks, screen, detail)

InitService ==
    /\ storage = <<>>
    /\ uiTasks = <<>>
    /\ screen = "Tasks"
    /\ detail = <<>>
    /\ now = 1
    /\ initialized = FALSE
    /\ permission \in {"undetermined", "granted", "denied"}
    /\ scheduled = {}
    /\ issued = 0
    /\ requests = 0
    /\ last = NoOp
    /\ callers = Idle
    /\ healthy = FALSE
    /\ uiSettings = <<>>
    /\ saving = FALSE

NextService ==
    \/ initializeCall
    \/ scheduleCall
    \/ cancelCall
    \/ Tick

SpecService == InitService /\ [][NextService]_vars

(***************************************************************************)
(* The handlers next to a caller that passes scheduleTaskNotification a    *)
(* task without reminderTime and no delay argument                         *)
(***************************************************************************)
scheduleDefaultCall ==
    \E status \in TaskStatus, env \in InitEnv(World), scheduleThrows \in Faults :
        LET task == Task("test", "task", NoText, MEDIUM, status, now, now, Absent,
                         Absent, Absent)
        IN Finish("schedule", NoText,
                  <<[title |-> task.title, priority |-> task.priority,
                     status |-> status, reminderTime |-> Absent, isNew |-> FALSE]>>,
                  FALSE, "none", storage,
                  scheduleTaskNotification(World, task, DefaultDelayMinutes, now, env,
                                           scheduleThrows).n,
                  uiTasks, screen, detail)

NextCallers ==
    \/ Next
    \/ scheduleDefaultCall

SpecCallers == Init /\ [][NextCallers]_vars

(***************************************************************************)
(* Overlapping calls of initialize().  Each caller (initialize itself, or  *)
(* scheduleTaskNotification / scheduleDailyReminder awaiting it) runs from *)
(* one await to the next; the callers interleave at the awaits.            *)
(***************************************************************************)
Callers == 1..MaxCallers

\* the call starts: the initialized check, then getPermissionsAsync is issued
initializeBegin(c) ==
    /\ callers[c].pc = "idle"
    /\ callers' = [callers EXCEPT ![c] =
                      IF initialized THEN [pc |-> "done", ret |-> TRUE]
                      ELSE [pc |-> "getPermissions"]]
    /\ UNCHANGED <<storage, uiTasks, screen, detail, now, initialized, permission,
                   scheduled, issued, requests, last, healthy,
                   uiSettings, saving>>

\* getPermissionsAsync settles; requestPermissionsAsync is issued unless the
\* status is granted
initializeGot(c) ==
    /\ callers[c].pc = "getPermissions"
    /\ \E getThrows \in Faults :
        IF getThrows
        THEN /\ initialized' = TRUE
             /\ callers' = [callers EXCEPT ![c] = [pc |-> "done", ret |-> FALSE]]
             /\ UNCHANGED requests
        ELSE LET existingStatus == permission
             IN IF existingStatus # "granted"
                THEN /\ requests' = requests + 1
                     /\ callers' = [callers EXCEPT ![c] = [pc |-> "requestPermissions"]]
                     /\ UNCHANGED initialized
                ELSE /\ initialized' = TRUE
                     /\ callers' = [callers EXCEPT ![c] = [pc |-> "done", ret |-> TRUE]]
                     /\ UNCHANGED requests
    /\ UNCHANGED <<storage, uiTasks, screen, detail, now, permission, scheduled,
                   issued, last, healthy,
                   uiSettings, saving>>

\* requestPermissionsAsync settles with the user's answer, or throws
initializeRequested(c) ==
    /\ callers[c].pc = "requestPermissions"
    /\ \E requestThrows \in Faults, answer \in {"granted", "denied"} :
        IF requestThrows
        THEN /\ callers' = [callers EXCEPT ![c] = [pc |-> "done", ret |-> FALSE]]
             /\ UNCHANGED permission
        ELSE LET finalStatus == answer
             IN /\ permission' = finalStatus
                /\ callers' = [callers EXCEPT ![c] =
                                  [pc |-> "done", ret |-> finalStatus = "granted"]]
    /\ initialized' = TRUE
    /\ UNCHANGED <<storage, uiTasks, screen, detail, now, scheduled, issued,
                   requests, last, healthy,
                   uiSettings, saving>>

\* the caller has its answer and may call again
initializeReturn(c) ==
    /\ callers[c].pc = "done"
    /\ callers' = [callers EXCEPT ![c] = [pc |-> "idle"]]
    /\ UNCHANGED <<storage, uiTasks, screen, detail, now, initialized, permission,
                   scheduled, issued, requests, last, healthy,
                   uiSettings, saving>>

NextInit ==
    \E c \in Callers :
        \/ initializeBegin(c)
        \/ initializeGot(c)
        \/ initializeRequested(c)
        \/ initializeReturn(c)

SpecInit == InitService /\ [][NextInit]_vars

(***************************************************************************)
(* The application on a healthy platform: no storage or notification call  *)
(* throws, and the notification permission is already granted              *)
(***************************************************************************)
InitHealthy ==
    /\ storage = <<>>
    /\ uiTasks = <<>>
    /\ screen = "Tasks"
    /\ detail = <<>>
    /\ now = 1
    /\ initialized = FALSE
    /\ permission = "granted"
    /\ scheduled = {}
    /\ issued = 0
    /\ requests = 0
    /\ last = NoOp
    /\ callers = Idle
    /\ healthy = TRUE
    /\ uiSettings = <<>>
    /\ saving = FALSE

SpecHealthy == InitHealthy /\ [][Next]_vars

(***************************************************************************)
(* StorageService on its own: any caller of the public methods             *)
(***************************************************************************)
Ids == {"1", "2"}

\* the tasks a caller builds at the current instant
TaskInputs ==
    {Task("1", "task", NoText, MEDIUM, PENDING, now, now, Absent, Absent, Absent)}
    \cup {Task("2", "task", "note", HIGH, status, now, now, MaxTime, MaxTime + 1, 1) :
            status \in TaskStatus}

\* partial updates without id and createdAt
Updates ==
    {[status |-> COMPLETED],
     [title |-> "edited", reminderTime |-> Absent]}

SettingsInputs ==
    {[notificationDelay |-> 15, themeMode |-> "light", enableNotifications |-> FALSE,
      dailyReminderTime |-> NoText]}

\* partial settings a caller passes to updateSettings
SettingsUpdates == {[themeMode |-> "dark"]}

\* The state a StorageService call leaves: storage st; the call, whether a
\* platform call threw in it, and what it returned are kept with the storage
\* it started from.
Return(op, id, args, faults, ret, st) ==
    /\ storage' = st
    /\ last' = [op |-> op, id |-> id, args |-> args, faults |-> faults, ret |-> ret,
                before |-> storage]
    /\ UNCHANGED <<uiTasks, screen, detail, now, initialized, permission, scheduled,
                   issued, requests, callers, healthy,
                   uiSettings, saving>>

addTaskCall ==
    /\ Len(Stored) < MaxStored
    /\ \E task \in TaskInputs, readFault \in Faults, writeFault \in Faults :
        LET r == addTask(storage, task, readFault, writeFault)
        IN Return("addTask", task.id, <<task>>, readFault \/ writeFault, r.ok, r.st)

updateTaskCall ==
    \E taskId \in Ids, updates \in Updates, readFault \in Faults, writeFault \in Faults :
        LET r == updateTask(storage, taskId, updates, now, readFault, writeFault)
        IN Return("updateTask", taskId, <<updates>>, readFault \/ writeFault, r.ok, r.st)

\* two deleteTask calls in a row; args keeps the collection between them
deleteTaskTwiceCall ==
    \E taskId \in Ids, readFault \in Faults, writeFault \in Faults,
       readFault2 \in Faults, writeFault2 \in Faults :
        LET r1 == deleteTask(storage, taskId, readFault, writeFault)
            r2 == deleteTask(r1.st, taskId, readFault2, writeFault2)
        IN Return("deleteTask", taskId, <<getTasks(r1.st, FALSE)>>,
                  readFault \/ writeFault \/ readFault2 \/ writeFault2,
                  <<r1.ok, r2.ok>>, r2.st)

getTaskStatsCall ==
    \E readFault \in Faults :
        Return("getTaskStats", NoText, <<>>, readFault,
               getTaskStats(storage, now, readFault), storage)

getSettingsCall ==
    \E readFault \in Faults :
        Return("getSettings", NoText, <<>>, readFault,
               getSettings(storage, readFault), storage)

saveSettingsCall ==
    \E settings \in SettingsInputs, writeFault \in Faults :
        LET r == saveSettings(storage, settings, writeFault)
        IN Return("saveSettings", NoText, <<settings>>, writeFault, r.ok, r.st)

clearAllDataCall ==
    \E removeFault \in Faults :
        LET r == clearAllData(storage, removeFault)
        IN Return("clearAllData", NoText, <<>>, removeFault, r.ok, r.st)

\* saveTasks called with the collection a caller has read and filtered
saveTasksCall ==
    \E taskId \in Ids, writeFault \in Faults :
        LET tasks == FilterOut(Stored, taskId)
            r == saveTasks(storage, tasks, writeFault)
        IN Return("saveTasks", NoText, <<tasks>>, writeFault, r.ok, r.st)

updateSettingsCall ==
    \E updates \in SettingsUpdates, readFault \in Faults, writeFault \in Faults :
        LET r == updateSettings(storage, updates, readFault, writeFault)
        IN Return("updateSettings", NoText, <<updates>>, readFault \/ writeFault,
                  r.ok, r.st)

isFirstLaunchCall ==
    \E readFault \in Faults :
        Return("isFirstLaunch", NoText, <<>>, readFault,
               isFirstLaunch(storage, readFault), storage)

setFirstLaunchCompleteCall ==
    \E writeFault \in Faults :
        LET r == setFirstLaunchComplete(storage, writeFault)
        IN Return("setFirstLaunchComplete", NoText, <<>>, writeFault, r.ok, r.st)

NextStorage ==
    \/ addTaskCall
    \/ updateTaskCall
    \/ deleteTaskTwiceCall
    \/ getTaskStatsCall
    \/ getSettingsCall
    \/ saveSettingsCall
    \/ clearAllDataCall
    \/ Tick

SpecStorage == Init /\ [][NextStorage]_vars

(***************************************************************************)
(* StorageService's three keys: every call that writes or removes a key,   *)
(* and the first-launch marker, at one clock instant                       *)
(***************************************************************************)
NextKeys ==
    \/ addTaskCall
    \/ updateTaskCall
    \/ deleteTaskTwiceCall
    \/ saveTasksCall
    \/ getSettingsCall
    \/ saveSettingsCall
    \/ updateSettingsCall
    \/ clearAllDataCall
    \/ isFirstLaunchCall
    \/ setFirstLaunchCompleteCall

SpecKeys == Init /\ [][NextKeys]_vars

(***************************************************************************)
(* getNextReminder over stored collections: the collection is any list of  *)
(* up to MaxReminders tasks that addTask may have stored                   *)
(***************************************************************************)
ReminderCollections ==
    UNION {{[i \in 1..n |->
                Task(ToString(i), "task", NoText, MEDIUM, f[i].status, 1, 1, Absent,
                     f[i].reminderTime, Absent)] :
              f \in [1..n -> [status : TaskStatus,
                              reminderTime : {Absent} \cup FormReminders]]} :
           n \in 0..MaxReminders}

InitReminders ==
    /\ storage \in {saveTasks(<<>>, tasks, FALSE).st : tasks \in ReminderCollections}
    /\ uiTasks = <<>>
    /\ screen = "Tasks"
    /\ detail = <<>>
    /\ now = 1
    /\ initialized = FALSE
    /\ permission = "undetermined"
    /\ scheduled = {}
    /\ issued = 0
    /\ requests = 0
    /\ last = NoOp
    /\ callers = Idle
    /\ healthy = FALSE
    /\ uiSettings = <<>>
    /\ saving = FALSE

getNextReminderCall ==
    \E readFault \in Faults :
        Return("getNextReminder", NoText, <<>>, readFault,
               getNextReminder(storage, now, readFault), storage)

NextReminders ==
    \/ getNextReminderCall
    \/ Tick

SpecReminders == InitReminders /\ [][NextReminders]_vars

(***************************************************************************)
(* SettingsScreen, reached from TasksScreen's header                       *)
(***************************************************************************)
\* the changes the screen's controls pass to updateSettings
ScreenUpdates == {[notificationDelay |-> 15], [themeMode |-> "light"]}

\* { ...settings, ...updates }
MergeSettings(settings, updates) ==
    [f \in SettingsFields |->
        IF f \in DOMAIN updates THEN updates[f] ELSE settings[f]]

\* The state a SettingsScreen handler leaves: storage st, notification world
\* n and the screen's settings set.
FinishSettings(op, data, written, reported, st, n, set) ==
    /\ storage' = st
    /\ uiSettings' = set
    /\ initialized' = n.initialized
    /\ permission' = n.permission
    /\ scheduled' = n.scheduled
    /\ issued' = n.issued
    /\ requests' = n.requests
    /\ last' = [op |-> op, id |-> NoText, before |-> <<>>,
                count |-> Len(getTasks(storage, FALSE)),
                data |-> data, written |-> written, reported |-> reported,
                calls |-> n.calls, cancels |-> n.cancels]
    /\ UNCHANGED <<uiTasks, screen, detail, now, callers, healthy, saving>>

\* navigate('Settings'): the screen mounts and its focus effect runs
\* loadSettings
openSettings ==
    /\ screen = "Tasks"
    /\ \E readFault \in Faults :
        /\ screen' = "Settings"
        /\ uiSettings' = <<getSettings(storage, readFault)>>
        /\ last' = NoOp
        /\ UNCHANGED <<storage, uiTasks, detail, now, initialized, permission,
                       scheduled, issued, requests, callers, healthy, saving>>

\* the header back button: the screen unmounts, TasksScreen reloads on focus
closeSettings ==
    /\ screen = "Settings"
    /\ \E readFault \in Faults :
        /\ screen' = "Tasks"
        /\ uiSettings' = <<>>
        /\ uiTasks' = ShownAll(getTasks(storage, readFault))
        /\ last' = NoOp
        /\ UNCHANGED <<storage, detail, now, initialized, permission, scheduled,
                       issued, requests, callers, healthy, saving>>

\* SettingsScreen's updateSettings(updates), called by its controls
screenUpdateSettings ==
    /\ screen = "Settings"
    /\ uiSettings # <<>>
    /\ \E updates \in ScreenUpdates, writeFault \in Faults :
        LET settings == uiSettings[1]
            newSettings == MergeSettings(settings, updates)
            success == saveSettings(storage, newSettings, writeFault)
            data == <<[updates |-> updates,
                       afterReset |-> last.op = "reset" /\ last.reported = "success"]>>
        IN IF success.ok
           THEN FinishSettings("settings", data, TRUE, "success", success.st, World,
                               <<newSettings>>)
           ELSE FinishSettings("settings", data, FALSE, "error", storage, World,
                               uiSettings)

\* the Reset All button of the confirmation alert
handleResetAllTasks ==
    /\ screen = "Settings"
    /\ \E cancelAllThrows \in Faults, removeFault \in Faults :
        LET c == cancelAllNotifications(World, cancelAllThrows)
            success == clearAllData(storage, removeFault)
            data == <<[cancelled |-> c.ret]>>
        IN IF success.ok
           THEN FinishSettings("reset", data, TRUE, "success", success.st, c.n,
                               uiSettings)
           ELSE FinishSettings("reset", data, FALSE, "error", storage, c.n,
                               uiSettings)

NextSettings ==
    \/ handleAddTask
    \/ openSettings
    \/ closeSettings
    \/ screenUpdateSettings
    \/ handleResetAllTasks
    \/ Tick

SpecSettings == Init /\ [][NextSettings]_vars

(***************************************************************************)
(* TaskDetailsScreen.handleSave from one await to the next.  callers[1]    *)
(* holds the handler in flight: the await it is suspended at and its       *)
(* locals.  An awaited call settles by returning or, when the platform     *)
(* lets it, by throwing to the handler.                                    *)
(***************************************************************************)
\* `saving` after a handler whose finally block is missing, so that only the
\* paths that return from the try block clear it
EndOfSaveNoFinally(thrown) == thrown

\* `saving` when the handler ends: finally { setSaving(false) }
EndOfSave(thrown) == FALSE

\* the handler goes on to its next await (pc), or ends (pc = "end"), after
\* navigation.goBack() when back holds; st and n are the storage and the
\* notification world the settled call leaves
SaveStep(st, n, pc, back, thrown, notificationId) ==
    /\ storage' = st
    /\ initialized' = n.initialized
    /\ permission' = n.permission
    /\ scheduled' = n.scheduled
    /\ issued' = n.issued
    /\ requests' = n.requests
    /\ IF pc = "end"
       THEN /\ saving' = EndOfSave(thrown)
            /\ callers' = Idle
            /\ last' = [op |-> "handleSave", thrown |-> thrown]
            /\ IF back
               THEN /\ uiTasks' \in {ShownAll(getTasks(st, readFault3)) :
                                         readFault3 \in Faults}
                    /\ screen' = "Tasks"
                    /\ detail' = <<>>
               ELSE UNCHANGED <<uiTasks, screen, detail>>
       ELSE /\ callers' = [callers EXCEPT ![1].pc = pc,
                                          ![1].notificationId = notificationId]
            /\ UNCHANGED <<uiTasks, screen, detail, saving, last>>
    /\ UNCHANGED <<now, healthy, uiSettings>>

\* the Save button: validateForm, setSaving(true), and the first await
\* (addTask or updateTask) is issued
savePress ==
    /\ screen \in {"New", "Edit"}
    /\ ~saving
    /\ callers[1].pc = "idle"
    /\ screen = "New" => Len(Stored) < Capacity
    /\ issued < MaxHandles
    /\ \E title \in FormTitles, priority \in FormPriorities,
          status \in (IF screen = "New" THEN {PENDING} ELSE TaskStatus),
          enableReminder \in BOOLEAN,
          reminderTime \in FormReminders \cup {Absent} :
        IF title = ""
        THEN UNCHANGED vars
        ELSE
          LET isNewTask == screen = "New"
              taskData == [title |-> title, description |-> Description(""),
                           priority |-> priority, status |-> status,
                           dueDate |-> Absent,
                           reminderTime |-> IF enableReminder THEN reminderTime
                                            ELSE Absent]
              updatedTask ==
                  Task(IF isNewTask THEN ToString(now) ELSE detail[1].id,
                       taskData.title, taskData.description, taskData.priority,
                       taskData.status, now, now, taskData.dueDate,
                       taskData.reminderTime,
                       IF isNewTask THEN Absent ELSE detail[1].notificationId)
          IN /\ saving' = TRUE
             /\ callers' = [callers EXCEPT ![1] =
                               [pc |-> "write", isNewTask |-> isNewTask,
                                taskData |-> taskData, updatedTask |-> updatedTask,
                                schedule |-> enableReminder /\ reminderTime # Absent,
                                previous |-> IF isNewTask THEN Absent
                                             ELSE detail[1].notificationId,
                                notificationId |-> Absent]]
             /\ UNCHANGED <<storage, uiTasks, screen, detail, now, initialized,
                            permission, scheduled, issued, requests, last, healthy,
                            uiSettings>>

\* await storageService.addTask / updateTask settles
saveWriteSettles ==
    /\ callers[1].pc = "write"
    /\ LET h == callers[1]
       IN \E throws \in Faults, readFault \in Faults, writeFault \in Faults :
           \E success \in {IF h.isNewTask
                           THEN addTask(storage, h.updatedTask, readFault, writeFault)
                           ELSE updateTask(storage, h.updatedTask.id, h.taskData, now,
                                           readFault, writeFault)} :
              IF throws THEN SaveStep(storage, World, "end", FALSE, TRUE, Absent)
              ELSE IF ~success.ok
              THEN SaveStep(storage, World, "end", FALSE, FALSE, Absent)
              ELSE IF h.schedule
              THEN SaveStep(success.st, World,
                            IF h.previous # Absent THEN "cancel" ELSE "schedule",
                            FALSE, FALSE, Absent)
              ELSE IF h.previous # Absent
              THEN SaveStep(success.st, World, "cancelOnly", FALSE, FALSE, Absent)
              ELSE SaveStep(success.st, World, "end", TRUE, FALSE, Absent)

\* await notificationService.cancelNotification(task.notificationId) settles
saveCancelSettles ==
    /\ callers[1].pc \in {"cancel", "cancelOnly"}
    /\ LET h == callers[1]
       IN \E throws \in Faults, cancelThrows \in Faults :
           \E c \in {cancelNotification(World, h.previous, cancelThrows)} :
              IF throws THEN SaveStep(storage, World, "end", TRUE, FALSE, Absent)
              ELSE SaveStep(storage, c.n,
                            IF h.pc = "cancel" THEN "schedule" ELSE "clear",
                            FALSE, FALSE, Absent)

\* await notificationService.scheduleTaskNotification(updatedTask) settles
saveScheduleSettles ==
    /\ callers[1].pc = "schedule"
    /\ LET h == callers[1]
       IN \E throws \in Faults, env \in InitEnv(World), scheduleThrows \in Faults :
           \E s \in {scheduleTaskNotification(World, h.updatedTask,
                                              DefaultDelayMinutes, now, env,
                                              scheduleThrows)} :
              IF throws THEN SaveStep(storage, World, "end", TRUE, FALSE, Absent)
              ELSE IF s.ret # Absent
              THEN SaveStep(storage, s.n, "persist", FALSE, FALSE, s.ret)
              ELSE SaveStep(storage, s.n, "end", TRUE, FALSE, Absent)

\* await storageService.updateTask(updatedTask.id, { notificationId }) settles
savePersistSettles ==
    /\ callers[1].pc \in {"persist", "clear"}
    /\ LET h == callers[1]
       IN \E throws \in Faults, readFault2 \in Faults, writeFault2 \in Faults :
           \E u \in {updateTask(storage, h.updatedTask.id,
                                [notificationId |-> h.notificationId], now,
                                readFault2, writeFault2)} :
              IF throws THEN SaveStep(storage, World, "end", TRUE, FALSE, Absent)
              ELSE SaveStep(u.st, World, "end", TRUE, FALSE, Absent)

\* some awaited call of the handler settles
saveSettles ==
    \/ saveWriteSettles
    \/ saveCancelSettles
    \/ saveScheduleSettles
    \/ savePersistSettles

NextSave ==
    \/ openNewTask
    \/ openTask
    \/ savePress
    \/ saveSettles

\* once issued, a write, cancel or schedule call runs to completion or failure
SpecSave == Init /\ [][NextSave]_vars /\ WF_vars(saveSettles)

(***************************************************************************)
(* Overlapping StorageService mutations.  addTask, updateTask and          *)
(* deleteTask await getTasks(), change the list they got and await         *)
(* saveTasks(); two calls in flight interleave at these awaits.  Caller c  *)
(* works on the task with id c.                                            *)
(***************************************************************************)
\* the collections the calls start from: each id stored or not
RaceCollections ==
    {<<>>}
    \cup {<<t>> : t \in TaskInputs}
    \cup {<<t, u>> : t \in {v \in TaskInputs : v.id = "1"},
                     u \in {v \in TaskInputs : v.id = "2"}}

\* the calls caller c may make on a collection: addTask when its id is not
\* stored, else deleteTask or an updateTask that changes the stored task
Mutations(c, tasks) ==
    LET id == ToString(c)
        i == findIndex(tasks, id)
    IN IF i = 0
       THEN {[op |-> "addTask", id |-> id, arg |-> t] :
                t \in {v \in TaskInputs : v.id = id}}
       ELSE {[op |-> "deleteTask", id |-> id, arg |-> <<>>]}
            \cup {[op |-> "updateTask", id |-> id, arg |-> u] :
                     u \in {v \in Updates : \E f \in DOMAIN v : tasks[i][f] # v[f]}}

\* what the call does to the list it has read: <<>> when it returns without
\* saving, <<list>> for the list it hands to saveTasks
Modify(tasks, m, clock) ==
    IF m.op = "addTask" THEN <<Append(tasks, m.arg)>>
    ELSE IF m.op = "deleteTask" THEN <<FilterOut(tasks, m.id)>>
    ELSE LET taskIndex == findIndex(tasks, m.id)
         IN IF taskIndex = 0 THEN <<>>
            ELSE <<[tasks EXCEPT ![taskIndex] = Merge(tasks[taskIndex], m.arg, clock)]>>

\* the list under a read-modify-write that reads again when it saves
HeldFresh(c) == Modify(getTasks(storage, FALSE), callers[c].m, now)[1]

\* the local `tasks` a call holds across its await of saveTasks
Held(c) == callers[c].tasks

\* the call is made and its getTasks() settles
mutationRead(c) ==
    /\ callers[c].pc = "idle"
    /\ \E m \in Mutations(c, getTasks(last.before, FALSE)), readFault \in Faults :
        LET tasks == Modify(getTasks(storage, readFault), m, now)
        IN callers' = [callers EXCEPT ![c] =
                          IF tasks = <<>> THEN [pc |-> "done", m |-> m, ret |-> FALSE]
                          ELSE [pc |-> "saveTasks", m |-> m, tasks |-> tasks[1]]]
    /\ last' = [last EXCEPT !.events = Append(@, <<c, "read">>)]
    /\ UNCHANGED <<storage, uiTasks, screen, detail, now, initialized, permission,
                   scheduled, issued, requests, healthy,
                   uiSettings, saving>>

\* its saveTasks() settles and the call returns
mutationWrite(c) ==
    /\ callers[c].pc = "saveTasks"
    /\ \E writeFault \in Faults :
        LET r == saveTasks(storage, Held(c), writeFault)
        IN /\ storage' = r.st
           /\ callers' = [callers EXCEPT ![c] =
                             [pc |-> "done", m |-> callers[c].m, ret |-> r.ok]]
    /\ last' = [last EXCEPT !.events = Append(@, <<c, "write">>)]
    /\ UNCHANGED <<uiTasks, screen, detail, now, initialized, permission,
                   scheduled, issued, requests, healthy,
                   uiSettings, saving>>

\* any stored collection, no call in flight, storage that does not fault
InitRace ==
    /\ now = 1
    /\ storage \in {saveTasks(<<>>, tasks, FALSE).st : tasks \in RaceCollections}
    /\ uiTasks = <<>>
    /\ screen = "Tasks"
    /\ detail = <<>>
    /\ initialized = FALSE
    /\ permission = "undetermined"
    /\ scheduled = {}
    /\ issued = 0
    /\ requests = 0
    /\ last = [op |-> "mutations", events |-> <<>>, before |-> storage]
    /\ callers = Idle
    /\ healthy = TRUE
    /\ uiSettings = <<>>
    /\ saving = FALSE

NextRace ==
    \E c \in Callers :
        \/ mutationRead(c)
        \/ mutationWrite(c)

SpecRace == InitRace /\ [][NextRace]_vars

(***************************************************************************)
(* Exceptions at the public boundary of the two services.  A call either   *)
(* returns or throws; the definitions below give, for each public method,  *)
(* whether it throws to its caller when the platform calls it awaits throw.*)
(***************************************************************************)
\* await of a platform call: throws when the platform call throws
Await(throws) == throws

\* a; b: b runs only when a has returned
Then(a, b) == a \/ b

\* a try block whose catch block throws the error again
Rethrow(body, handler) == body

\* try { body } catch { handler }: throws only when the body throws and the
\* catch block throws while handling it
TryCatch(body, handler) == body /\ handler

\* every catch block of the two services logs and returns a constant
LogAndReturn == FALSE

StorageMethods ==
    {"getTasks", "saveTasks", "addTask", "updateTask", "deleteTask", "getTaskById",
     "getTaskStats", "getSettings", "saveSettings", "updateSettings", "isFirstLaunch",
     "setFirstLaunchComplete", "clearAllData", "getNextReminder"}

\* which AsyncStorage calls throw: getItem, setItem, multiRemove
StorageFaults == [getItem : Faults, setItem : Faults, multiRemove : Faults]

\* does StorageService.m throw to its caller
StorageMethod(m, f) ==
    LET getTasksThrows == TryCatch(Await(f.getItem), LogAndReturn)
        saveTasksThrows == TryCatch(Await(f.setItem), LogAndReturn)
        getSettingsThrows == TryCatch(Await(f.getItem), LogAndReturn)
        saveSettingsThrows == TryCatch(Await(f.setItem), LogAndReturn)
    IN CASE m = "getTasks" -> getTasksThrows
         [] m = "saveTasks" -> saveTasksThrows
         [] m \in {"addTask", "updateTask", "deleteTask"} ->
                TryCatch(Then(getTasksThrows, saveTasksThrows), LogAndReturn)
         [] m \in {"getTaskById", "getTaskStats", "getNextReminder"} ->
                TryCatch(getTasksThrows, LogAndReturn)
         [] m = "getSettings" -> getSettingsThrows
         [] m = "saveSettings" -> saveSettingsThrows
         [] m = "updateSettings" ->
                TryCatch(Then(getSettingsThrows, saveSettingsThrows), LogAndReturn)
         [] m = "isFirstLaunch" -> TryCatch(Await(f.getItem), LogAndReturn)
         [] m = "setFirstLaunchComplete" -> TryCatch(Await(f.setItem), LogAndReturn)
         [] m = "clearAllData" -> TryCatch(Await(f.multiRemove), LogAndReturn)

NotificationMethods ==
    {"initialize", "scheduleTaskNotification", "cancelNotification",
     "cancelTaskNotification", "rescheduleTaskNotification",
     "getAllScheduledNotifications", "cancelAllNotifications",
     "scheduleDailyReminder", "hasPermissions"}

\* which expo-notifications calls throw
NotificationFaults ==
    [getPermissions : Faults, requestPermissions : Faults, schedule : Faults,
     cancel : Faults, cancelAll : Faults, getAll : Faults]

\* does NotificationService.m throw to its caller
NotificationMethod(m, f) ==
    LET initializeThrows ==
            TryCatch(Then(Await(f.getPermissions), Await(f.requestPermissions)),
                     LogAndReturn)
        scheduleTaskNotificationThrows ==
            TryCatch(Then(initializeThrows, Await(f.schedule)), LogAndReturn)
        cancelNotificationThrows == TryCatch(Await(f.cancel), LogAndReturn)
    IN CASE m = "initialize" -> initializeThrows
         [] m = "scheduleTaskNotification" -> scheduleTaskNotificationThrows
         [] m = "cancelNotification" -> cancelNotificationThrows
         \* no try block of their own
         [] m = "cancelTaskNotification" -> cancelNotificationThrows
         [] m = "rescheduleTaskNotification" ->
                Then(cancelNotificationThrows, scheduleTaskNotificationThrows)
         [] m = "getAllScheduledNotifications" ->
                TryCatch(Await(f.getAll), LogAndReturn)
         [] m = "cancelAllNotifications" -> TryCatch(Await(f.cancelAll), LogAndReturn)
         [] m = "scheduleDailyReminder" ->
                TryCatch(Then(initializeThrows, Await(f.schedule)), LogAndReturn)
         [] m = "hasPermissions" -> TryCatch(Await(f.getPermissions), LogAndReturn)

\* a call across the boundary: the method, the platform calls that threw in
\* it, and whether the call threw to its caller
Crossed(service, m, f, raised) ==
    /\ last' = [op |-> m, service |-> service, faults |-> f, raised |-> raised]
    /\ UNCHANGED <<storage, uiTasks, screen, detail, now, initialized, permission,
                   scheduled, issued, requests, callers, healthy,
                   uiSettings, saving>>

storageMethodCall ==
    \E m \in StorageMethods, f \in StorageFaults :
        Crossed("StorageService", m, f, StorageMethod(m, f))

notificationMethodCall ==
    \E m \in NotificationMethods, f \in NotificationFaults :
        Crossed("NotificationService", m, f, NotificationMethod(m, f))

NextBoundary ==
    \/ storageMethodCall
    \/ notificationMethodCall

SpecBoundary == Init /\ [][NextBoundary]_vars

(***************************************************************************)
(* Properties                                                              *)
(***************************************************************************)
\* the stored task a handler worked on, as <<>> or <<task>>
Target == IF last.id = NoText THEN <<>> ELSE getTaskById(storage, last.id, FALSE)

\* the handles the last handler got back from scheduleTaskNotification
Handles == {last.calls[k].ret : k \in 1..Len(last.calls)} \ {Absent}

\* the trigger instant a logged call resolves to
Trigger(c) ==
    IF c.reminderTime # Absent THEN c.reminderTime
    ELSE now + c.delayMinutes * 60 * 1000

\* C1: for every task in the stored collection, notificationId is present
\* if and only if a live platform notification with that handle exists.
C1_NotificationInvariant ==
    \A i \in 1..Len(Stored) :
        (Stored[i].notificationId # Absent) <=> (Stored[i].notificationId \in Live)

\* C2: when a PENDING task with a stored notificationId is flipped to
\* COMPLETED, that handle is cancelled exactly once and the stored task's
\* notificationId is absent when the operation has finished.
C2_CompleteCancelsReminder ==
    (/\ last.op = "toggle"
     /\ last.written
     /\ last.before # <<>>
     /\ last.before[1].status = PENDING
     /\ last.before[1].notificationId # Absent
     /\ last.data[1].status = COMPLETED)
    => /\ Cardinality({k \in 1..Len(last.cancels) :
                          last.cancels[k] = last.before[1].notificationId}) = 1
       /\ Target # <<>>
       /\ Target[1].notificationId = Absent

\* C3: a save that changes reminderTime on an existing task cancels the
\* previous notificationId if there is one, and leaves as the stored
\* notificationId the handle of the newly scheduled notification, or absent
\* when no new notification was scheduled.
C3_SaveReschedules ==
    (/\ last.op = "save"
     /\ last.written
     /\ ~last.data[1].isNew
     /\ last.before # <<>>
     /\ last.before[1].reminderTime # last.data[1].reminderTime)
    => /\ last.before[1].notificationId # Absent
            => \E k \in 1..Len(last.cancels) :
                  last.cancels[k] = last.before[1].notificationId
       /\ Target # <<>>
       /\ IF Handles # {} THEN Target[1].notificationId \in Handles
          ELSE Target[1].notificationId = Absent

\* C4: no create, edit or toggle leaves a live notification that was
\* scheduled while the task was saved with status COMPLETED.
C4_ScheduledOnlyWhenPending ==
    last.op \in {"add", "save", "toggle"}
    => \A k \in 1..Len(last.calls) :
          last.calls[k].ret \in Live => last.calls[k].status = PENDING

\* C5: a scheduleTaskNotification call made while the permission outcome is
\* denied returns absent, issues no schedule call to the platform and does
\* not prompt for permission again.
C5_DeniedSchedulesNothing ==
    \A k \in 1..Len(last.calls) :
        last.calls[k].denied
        => /\ last.calls[k].ret = Absent
           /\ ~last.calls[k].reached
           /\ ~last.calls[k].prompted

\* C6: requestPermissionsAsync is issued at most once in a process lifetime,
\* for every interleaving of overlapping initialize calls.
C6_OnePermissionRequest == requests <= 1

\* C7: once initialize has resolved as denied, every later initialize call
\* in the same process reports denied (false) and leaves the cached outcome.
C7_DeniedIsTerminal ==
    (last.op = "initialize" /\ last.data[1].denied)
    => /\ last.data[1].ret = FALSE
       /\ ~last.data[1].prompted
       /\ initialized /\ permission = "denied"

\* C8: if the resolved trigger instant (reminderTime if present, else now +
\* delayMinutes) is at or before now, scheduleTaskNotification returns
\* absent and no schedule call reaches the platform.
C8_PastReminderRejected ==
    \A k \in 1..Len(last.calls) :
        Trigger(last.calls[k]) <= now
        => /\ last.calls[k].ret = Absent
           /\ ~last.calls[k].reached

\* a direct call with reminderTime equal to the current instant came back absent
C8_Witness ==
    /\ last.op = "schedule"
    /\ Len(last.calls) = 1
    /\ last.calls[1].reminderTime = now
    /\ last.calls[1].ret = Absent
    /\ ~last.calls[1].reached

\* C9: scheduleTaskNotification with delayMinutes 0 on a task without
\* reminderTime returns absent and schedules nothing; the save path calls it
\* with delayMinutes 0, so a save never schedules a notification for a task
\* that has no reminderTime.
C9_NothingToSchedule ==
    /\ \A k \in 1..Len(last.calls) :
          (last.calls[k].reminderTime = Absent /\ last.calls[k].delayMinutes = 0)
          => /\ last.calls[k].ret = Absent
             /\ ~last.calls[k].reached
    /\ last.op = "save"
       => /\ \A k \in 1..Len(last.calls) : last.calls[k].delayMinutes = 0
          /\ (last.data # <<>> /\ last.data[1].reminderTime = Absent) => Handles = {}

\* the call without reminderTime and without delay was made and came back
\* absent, with a task without reminderTime in the store
C9_Witness ==
    /\ last.op = "schedule"
    /\ Len(last.calls) = 1
    /\ last.calls[1].reminderTime = Absent
    /\ last.calls[1].delayMinutes = 0
    /\ last.calls[1].ret = Absent
    /\ \E i \in 1..Len(Stored) : Stored[i].reminderTime = Absent

\* C10: whenever the storage write of a task create or edit succeeds, the
\* mutation is reported as successful and the stored task keeps the new
\* field values, whatever the cancel and schedule steps do afterwards.
C10_SchedulerNeverBlocksWrite ==
    (last.op \in {"add", "save"} /\ last.written)
    => /\ last.reported = "success"
       /\ \E i \in 1..Len(Stored) :
             /\ Stored[i].id = last.id
             /\ Stored[i].title = last.data[1].title
             /\ Stored[i].priority = last.data[1].priority
             /\ Stored[i].status = last.data[1].status
             /\ Stored[i].reminderTime = last.data[1].reminderTime

\* an edit was written and reported although the platform's schedule call threw
C10_Witness ==
    /\ last.op = "save"
    /\ last.written
    /\ ~last.data[1].isNew
    /\ last.reported = "success"
    /\ \E k \in 1..Len(last.calls) :
          last.calls[k].reached /\ last.calls[k].ret = Absent

\* C11: a delete handler cancels the task's notificationId, and after a
\* delete that reports success no live notification of the deleted task
\* remains.
C11_DeleteReleasesNotification ==
    last.op = "delete"
    => /\ (last.before # <<>> /\ last.before[1].notificationId # Absent)
            => \E k \in 1..Len(last.cancels) :
                  last.cancels[k] = last.before[1].notificationId
       /\ last.reported = "success"
            => ~\E x \in scheduled : x.taskId = last.id

\* C12: creating a PENDING task with the reminder enabled and a future
\* reminderTime, with permission granted and storage healthy, is written,
\* adds exactly one task, calls scheduleTaskNotification exactly once with
\* the trigger equal to the reminderTime, and leaves the returned handle as
\* the stored task's notificationId.
C12_CreateWithReminder ==
    (/\ last.op = "save"
     /\ last.data # <<>>
     /\ last.data[1].isNew
     /\ last.data[1].status = PENDING
     /\ last.data[1].reminderTime > now)
    => /\ last.written
       /\ Len(Stored) = last.count + 1
       /\ Len(last.calls) = 1
       /\ last.calls[1].reached
       /\ last.calls[1].ret # Absent
       /\ \E x \in scheduled :
             /\ x.id = last.calls[1].ret
             /\ x.trigger = last.data[1].reminderTime
       /\ Target # <<>>
       /\ Target[1].notificationId = last.calls[1].ret

\* such a task was created and carries the handle of its live notification
C12_Witness ==
    /\ last.op = "save"
    /\ last.data # <<>>
    /\ last.data[1].isNew
    /\ last.data[1].reminderTime > now
    /\ Len(last.calls) = 1
    /\ Target # <<>>
    /\ Target[1].notificationId \in Live

\* C13: every stored task with status PENDING and a reminderTime in the
\* future has a live scheduled notification.
C13_ReminderImpliesScheduled ==
    \A i \in 1..Len(Stored) :
        (Stored[i].status = PENDING /\ Stored[i].reminderTime > now)
        => \E x \in scheduled : x.taskId = Stored[i].id

\* the collection a StorageService call started from
Before == getTasks(last.before, FALSE)

\* the settings the documentation gives as defaults
DocumentedDefaults ==
    [notificationDelay |-> 30, themeMode |-> "dark", enableNotifications |-> TRUE,
     dailyReminderTime |-> "09:00"]

\* C14: with healthy storage two consecutive deleteTask(id) calls both
\* return success, getTaskById(id) is absent afterwards, and the second call
\* leaves the collection as the first left it.
C14_DeleteIdempotent ==
    (last.op = "deleteTask" /\ ~last.faults)
    => /\ last.ret = <<TRUE, TRUE>>
       /\ getTaskById(storage, last.id, FALSE) = <<>>
       /\ Stored = last.args[1]

\* an existing task was deleted twice and another task is still stored
C14_Witness ==
    /\ last.op = "deleteTask"
    /\ ~last.faults
    /\ findIndex(Before, last.id) # 0
    /\ Len(Stored) >= 1

\* C15: updateTask on an id that is not in the stored collection returns
\* false, writes nothing and leaves the storage unchanged.
C15_UpdateMissingId ==
    (last.op = "updateTask" /\ findIndex(Before, last.id) = 0)
    => /\ last.ret = FALSE
       /\ storage = last.before

\* updateTask was called for a missing id on a non-empty collection
C15_Witness ==
    /\ last.op = "updateTask"
    /\ ~last.faults
    /\ findIndex(Before, last.id) = 0
    /\ Len(Before) >= 1
    /\ last.ret = FALSE

\* C16: updateTask(t.id, u) followed by getTaskById(t.id) yields a record
\* with the same id and createdAt, u's value in every field of u, every
\* other field but updatedAt unchanged, and updatedAt strictly greater than
\* before.
C16_UpdatePreservesIdentity ==
    (last.op = "updateTask" /\ ~last.faults /\ findIndex(Before, last.id) # 0)
    => LET t == Before[findIndex(Before, last.id)]
           u == last.args[1]
           r == getTaskById(storage, last.id, FALSE)
       IN /\ last.ret = TRUE
          /\ r # <<>>
          /\ r[1].id = t.id
          /\ r[1].createdAt = t.createdAt
          /\ \A f \in DOMAIN u : r[1][f] = u[f]
          /\ \A f \in Fields \ (DOMAIN u \cup {"updatedAt"}) : r[1][f] = t[f]
          /\ r[1].updatedAt > t.updatedAt

\* C17: addTask(t) for an id not yet stored, followed by getTaskById(t.id),
\* returns a record equal to t in all fields, timestamps included and absent
\* optional fields still absent.
C17_RoundTrip ==
    (last.op = "addTask" /\ ~last.faults /\ findIndex(Before, last.id) = 0)
    => /\ last.ret = TRUE
       /\ getTaskById(storage, last.id, FALSE) = <<last.args[1]>>

\* a task without optional fields was added next to one that has them
C17_Witness ==
    /\ last.op = "addTask"
    /\ ~last.faults
    /\ findIndex(Before, last.id) = 0
    /\ last.args[1].reminderTime = Absent
    /\ \E i \in 1..Len(Stored) : Stored[i].reminderTime # Absent

\* C18: getTaskStats returns total = completed + pending, highPriority <=
\* pending and dueSoon <= pending, and all zeros when the read fails.
C18_StatsConsistent ==
    last.op = "getTaskStats"
    => /\ last.ret.total = last.ret.completed + last.ret.pending
       /\ last.ret.highPriority <= last.ret.pending
       /\ last.ret.dueSoon <= last.ret.pending
       /\ last.faults => last.ret = [total |-> 0, completed |-> 0, pending |-> 0,
                                     highPriority |-> 0, dueSoon |-> 0]

\* statistics were taken of a collection with a completed and a pending task
C18_Witness ==
    /\ last.op = "getTaskStats"
    /\ last.ret.completed >= 1
    /\ last.ret.pending >= 1

\* C19: when no settings key is stored, and when the settings read faults,
\* getSettings returns exactly notificationDelay 30, themeMode dark,
\* enableNotifications true, dailyReminderTime 09:00.
C19_SettingsDefault ==
    (last.op = "getSettings" /\ (SETTINGS \notin DOMAIN storage \/ last.faults))
    => last.ret = DocumentedDefaults

\* the read faulted although settings are stored
C19_Witness ==
    /\ last.op = "getSettings"
    /\ last.faults
    /\ SETTINGS \in DOMAIN storage
    /\ last.ret = DocumentedDefaults

\* C20: after a clearAllData that returns success getTasks returns an empty
\* sequence and getSettings returns the documented defaults.
C20_ResetClearsEverything ==
    (last.op = "clearAllData" /\ last.ret = TRUE)
    => /\ getTasks(storage, FALSE) = <<>>
       /\ getSettings(storage, FALSE) = DocumentedDefaults

\* tasks and settings were stored when clearAllData succeeded
C20_Witness ==
    /\ last.op = "clearAllData"
    /\ last.ret = TRUE
    /\ Len(Before) >= 2
    /\ SETTINGS \in DOMAIN last.before

\* C21: clearAllData leaves the first-launch marker as it is: isFirstLaunch
\* reads true exactly while the marker key is absent, reads false after a
\* setFirstLaunchComplete that succeeded, and no clearAllData, task operation
\* or settings operation changes what it reads.
C21_FirstLaunchMarker ==
    /\ (last.op = "isFirstLaunch" /\ ~last.faults)
          => (last.ret <=> FIRST_LAUNCH \notin DOMAIN storage)
    /\ (last.op = "setFirstLaunchComplete" /\ last.ret)
          => ~isFirstLaunch(storage, FALSE)
    /\ last.op \in {"addTask", "updateTask", "deleteTask", "saveTasks", "getTaskStats",
                    "getSettings", "saveSettings", "updateSettings", "clearAllData",
                    "isFirstLaunch"}
          => (isFirstLaunch(storage, FALSE) <=> isFirstLaunch(last.before, FALSE))

\* clearAllData removed tasks and settings after the first launch was completed
C21_Witness ==
    /\ last.op = "clearAllData"
    /\ last.ret = TRUE
    /\ Len(Before) >= 1
    /\ SETTINGS \in DOMAIN last.before
    /\ ~isFirstLaunch(storage, FALSE)

\* C22: whenever addTask, updateTask, deleteTask, saveTasks, saveSettings,
\* updateSettings or clearAllData returns false, the stored task collection
\* and the stored settings are what they were before the call.
C22_FalseMeansNoChange ==
    /\ (/\ last.op \in {"addTask", "updateTask", "saveTasks", "saveSettings",
                         "updateSettings", "clearAllData"}
        /\ last.ret = FALSE)
          => /\ getItem(storage, TASKS) = getItem(last.before, TASKS)
             /\ getItem(storage, SETTINGS) = getItem(last.before, SETTINGS)
    /\ last.op = "deleteTask"
          => /\ last.ret[1] = FALSE => last.args[1] = Before
             /\ last.ret[2] = FALSE => Stored = last.args[1]
             /\ getItem(storage, SETTINGS) = getItem(last.before, SETTINGS)

\* clearAllData failed with tasks and settings stored
C22_Witness ==
    /\ last.op = "clearAllData"
    /\ last.ret = FALSE
    /\ Len(Stored) >= 1
    /\ SETTINGS \in DOMAIN storage

\* C27: every task stored before addTask(t) is still stored after it, and
\* every task with another id is still stored after deleteTask(id), whatever
\* the call returns and also when its read of the collection faults.
C27_UnrelatedTasksKept ==
    /\ last.op = "addTask"
          => \A i \in 1..Len(Before) : \E k \in 1..Len(Stored) : Stored[k] = Before[i]
    /\ last.op = "deleteTask"
          => \A i \in 1..Len(Before) :
                Before[i].id # last.id
                => \E k \in 1..Len(Stored) : Stored[k] = Before[i]

FutureReminders ==
    {Stored[i].reminderTime :
        i \in {k \in 1..Len(Stored) :
                  Stored[k].status = PENDING /\ Stored[k].reminderTime > now}}

\* C24: getNextReminder returns the minimum reminderTime over the stored
\* tasks that are PENDING and whose reminderTime is strictly after now, and
\* absent when there is no such task.
C24_NextReminderIsMinimum ==
    (last.op = "getNextReminder" /\ ~last.faults)
    => IF FutureReminders = {} THEN last.ret = Absent
       ELSE /\ last.ret \in FutureReminders
            /\ \A t \in FutureReminders : last.ret <= t

\* the answer passed over an earlier reminder of a COMPLETED task and a
\* PENDING task whose reminder is not after now
C24_Witness ==
    /\ last.op = "getNextReminder"
    /\ ~last.faults
    /\ last.ret # Absent
    /\ \E i \in 1..Len(Stored) :
          /\ Stored[i].status = COMPLETED
          /\ Stored[i].reminderTime > now
          /\ Stored[i].reminderTime < last.ret
    /\ \E i \in 1..Len(Stored) :
          /\ Stored[i].status = PENDING
          /\ Stored[i].reminderTime # Absent
          /\ Stored[i].reminderTime <= now

\* C25: all tasks of the stored collection have pairwise distinct ids, also
\* after two creations through the screen handlers within one clock tick.
C25_UniqueIds ==
    \A i \in 1..Len(Stored), k \in 1..Len(Stored) :
        Stored[i].id = Stored[k].id => i = k

\* the storage a mutation leaves when it runs on its own
Alone(m, st) ==
    IF m.op = "addTask" THEN addTask(st, m.arg, FALSE, FALSE).st
    ELSE IF m.op = "deleteTask" THEN deleteTask(st, m.id, FALSE, FALSE).st
    ELSE updateTask(st, m.id, m.arg, now, FALSE, FALSE).st

\* is the change of mutation m to be seen in the collection
Present(m, tasks) ==
    LET i == findIndex(tasks, m.id)
    IN IF m.op = "addTask" THEN i # 0
       ELSE IF m.op = "deleteTask" THEN i = 0
       ELSE i # 0 /\ \A f \in DOMAIN m.arg : tasks[i][f] = m.arg[f]

\* C26: when two mutations on different ids have both read the collection
\* before either writes, the second writer's save overwrites the first
\* writer's change, and the stored collection lacks the first mutation; when
\* they run one after the other both changes are present.
C26_LostUpdate ==
    (\A c \in Callers : callers[c].pc = "done")
    => LET e == last.events
       IN IF e[2][2] = "read"
          THEN LET first == callers[e[3][1]].m
                   second == callers[e[4][1]].m
               IN /\ storage = Alone(second, last.before)
                  /\ Present(second, Stored)
                  /\ ~Present(first, Stored)
          ELSE LET first == callers[e[1][1]].m
                   second == callers[e[3][1]].m
               IN /\ storage = Alone(second, Alone(first, last.before))
                  /\ Present(first, Stored)
                  /\ Present(second, Stored)

\* a deleteTask and an updateTask on different tasks overlapped, and the
\* deleted task is stored again
C26_Witness ==
    /\ \A c \in Callers : callers[c].pc = "done"
    /\ last.events[2][2] = "read"
    /\ callers[last.events[3][1]].m.op = "deleteTask"
    /\ callers[last.events[4][1]].m.op = "updateTask"
    /\ findIndex(Stored, callers[last.events[3][1]].m.id) # 0

C29_ResetLeavesNoReminders ==
    (last.op = "reset" /\ last.reported = "success")
    => /\ Stored = <<>>
       /\ scheduled = {}

\* C30: the saving flag set at the start of a handleSave that passed
\* validation is always eventually cleared, whether the write and the
\* cancel and schedule steps succeed, return failure or throw.
C30_SaveFinishes == saving ~> ~saving

\* the handler ended with the flag cleared after the awaited write threw
\* and the outer catch ran
C30_Witness ==
    /\ ~saving
    /\ callers[1].pc = "idle"
    /\ last.op = "handleSave"
    /\ last.thrown

====
